---- MODULE Spec2Model ----
(***************************************************************************)
(* FreightPay Investigator (src/main.py): the multi-query aggregation and  *)
(* normalisation pipeline, modelled as state machines over the values the  *)
(* Python code builds.                                                     *)
(*                                                                         *)
(* Python values are tagged records: None, Str(s), Num(n), Bool(b),        *)
(* Dict(f) and List(l).  A str is a sequence of one-character strings, so  *)
(* that split, strip, startswith and slicing are computed character by     *)
(* character.  A dict is a function whose domain is the set of keys it     *)
(* holds: a key that is absent is not in the domain, a key that is present *)
(* with a JSON null maps to None.                                          *)
(***************************************************************************)
EXTENDS Integers, Sequences, FiniteSets, TLC

VARIABLES
    status_type_gid,   \* extract_status_value: argument status_type_gid
    status_value_gid,  \* extract_status_value: argument status_value_gid
    status_out,        \* extract_status_value: returned value, None before the call
    links,             \* extract_xid_from_link: argument links
    rel,               \* extract_xid_from_link: argument rel
    xid_out,           \* extract_xid_from_link: returned value, NotCalled before the call
    fetch_resp,        \* fetch_query: what the GET meets
    fetch_name,        \* fetch_query: argument query_name
    fetch_out,         \* fetch_query: the envelope returned or the exception raised
    q,                 \* search_single: argument q
    search_pc,         \* search_single: "start", "gathering" (awaiting gather) or "done"
    results,           \* search_single: per query of ALL_QUERIES, the envelope its
                       \* dispatch resolved to, NotCalled while it is in flight
    search_out,        \* search_single: the value returned or the exception raised
    values,            \* bulk_search: the request body
    bulk_pc,           \* bulk_search: "start", "gathering" (awaiting gather) or "done"
    raw_values,        \* bulk_search: the list raw_values
    group_results,     \* bulk_search: per term, what its search_single returned,
                       \* NotCalled while it runs
    completed,         \* bulk_search: the terms' indices in the order their searches ended
    bulk_out,          \* bulk_search: the value returned or the HTTPException raised
    gets,              \* the number of GET requests issued to the saved-query endpoint
    trigger,           \* trigger operation: "trigger_btf", "trigger_usb" or "send_to_po"
    shipment_xid,      \* trigger operation: argument shipment_xid
    trigger_pc,        \* trigger operation: "start", "posting" (awaiting the POST) or "done"
    posts,             \* the POST requests issued to OTM_WMSERVLET, in order
    trigger_resp,      \* trigger operation: what the POST met (response or failure)
    trigger_out        \* trigger operation: the value returned or the HTTPException raised

statusVars == <<status_type_gid, status_value_gid, status_out>>
linkVars   == <<links, rel, xid_out>>
fetchVars  == <<fetch_resp, fetch_name, fetch_out>>
searchVars == <<q, search_pc, results, search_out>>
bulkVars   == <<values, bulk_pc, raw_values, group_results, completed, bulk_out>>
triggerVars == <<trigger, shipment_xid, trigger_pc, posts, trigger_resp, trigger_out>>
vars       == <<statusVars, linkVars, fetchVars, searchVars, bulkVars, gets, triggerVars>>

(***************************************************************************)
(* Python values                                                           *)
(***************************************************************************)
None      == [t |-> "null"]
Str(s)    == [t |-> "str", s |-> s]
Num(n)    == [t |-> "num", n |-> n]
Bool(b)   == [t |-> "bool", b |-> b]
Dict(f)   == [t |-> "dict", f |-> f]
List(l)   == [t |-> "list", l |-> l]
NotCalled == [t |-> "notcalled"]

\* an exception of class exc whose str() is msg
Exc(exc, msg) == [t |-> "raise", exc |-> exc, msg |-> msg]

\* the text of the interpreter's own AttributeError and TypeError: never empty
BUILTIN_MSG == <<"N","o","n","e","T","y","p","e">>

\* an exception raised by the interpreter on a value of the wrong type
Raise(exc) == Exc(exc, BUILTIN_MSG)

\* d.get(key, default) of a dict d
Get(d, key, default) == IF key \in DOMAIN d.f THEN d.f[key] ELSE default

\* a dict from a set of <<key, value>> pairs
Obj(pairs) == [k \in {p[1] : p \in pairs} |-> (CHOOSE p \in pairs : p[1] = k)[2]]

IsRaise(v) == v.t = "raise"

\* bool(v)
Truthy(v) ==
    CASE v.t = "null" -> FALSE
      [] v.t = "bool" -> v.b
      [] v.t = "num"  -> v.n # 0
      [] v.t = "str"  -> Len(v.s) > 0
      [] v.t = "list" -> Len(v.l) > 0
      [] v.t = "dict" -> DOMAIN v.f # {}
      [] OTHER        -> TRUE

\* a or b
Or(a, b) == IF Truthy(a) THEN a ELSE b

EmptyDict == Dict(<<>>)
EmptyList == List(<<>>)
EmptyStr  == Str(<<>>)

\* d[k] = v on the function d
Put(d, k, v) == [x \in DOMAIN d \cup {k} |-> IF x = k THEN v ELSE d[x]]

\* v.get(key, default) of any Python value v: AttributeError unless v is a dict
GetAttr(v, key, default) ==
    IF v.t = "dict" THEN Get(v, key, default) ELSE Raise("AttributeError")

(***************************************************************************)
(* str methods, on sequences of characters                                 *)
(***************************************************************************)
IsSpace(c) == c \in {" ", "\t", "\n"}

LOWERCASE ==
    <<"a","b","c","d","e","f","g","h","i","j","k","l","m",
      "n","o","p","q","r","s","t","u","v","w","x","y","z">>
UPPERCASE ==
    <<"A","B","C","D","E","F","G","H","I","J","K","L","M",
      "N","O","P","Q","R","S","T","U","V","W","X","Y","Z">>

\* c.upper() of an ASCII character
Upper(c) ==
    IF \E i \in 1..Len(LOWERCASE) : LOWERCASE[i] = c
    THEN UPPERCASE[CHOOSE i \in 1..Len(LOWERCASE) : LOWERCASE[i] = c]
    ELSE c

\* s.upper()
upper(s) == [i \in 1..Len(s) |-> Upper(s[i])]

\* s.startswith(p)
startswith(s, p) == Len(p) <= Len(s) /\ SubSeq(s, 1, Len(p)) = p

RECURSIVE findFrom(_, _, _)
findFrom(s, sub, i) ==
    IF i + Len(sub) - 1 > Len(s) THEN 0
    ELSE IF SubSeq(s, i, i + Len(sub) - 1) = sub THEN i
    ELSE findFrom(s, sub, i + 1)

\* s.find(sub) + 1: the index of the first occurrence of sub in s, 0 when none
find(s, sub) == findFrom(s, sub, 1)

RECURSIVE rfindFrom(_, _, _)
rfindFrom(s, sub, i) ==
    IF i < 1 THEN 0
    ELSE IF SubSeq(s, i, i + Len(sub) - 1) = sub THEN i
    ELSE rfindFrom(s, sub, i - 1)

\* s.rfind(sub) + 1: the index of the last occurrence of sub in s, 0 when none
rfind(s, sub) == rfindFrom(s, sub, Len(s) - Len(sub) + 1)

\* sub in s
contains(s, sub) == find(s, sub) # 0

\* s.split(sep, 1)[1], for s that contains sep
split1_after(s, sep) == SubSeq(s, find(s, sep) + Len(sep), Len(s))

\* s.rsplit(sep, 1)[-1]
rsplit1_last(s, sep) ==
    IF contains(s, sep) THEN SubSeq(s, rfind(s, sep) + Len(sep), Len(s)) ELSE s

RECURSIVE lstrip(_)
lstrip(s) == IF Len(s) > 0 /\ IsSpace(s[1]) THEN lstrip(Tail(s)) ELSE s

RECURSIVE rstrip(_)
rstrip(s) ==
    IF Len(s) > 0 /\ IsSpace(s[Len(s)]) THEN rstrip(SubSeq(s, 1, Len(s) - 1)) ELSE s

\* s.strip()
strip(s) == rstrip(lstrip(s))

(***************************************************************************)
(* extract_status_value                                                    *)
(***************************************************************************)
DOT        == <<".">>
SEP_DASH   == <<" ", "-", " ">>
UNDERSCORE == <<"_">>

\* x.split(".", 1)[1] if "." in x else x
strip_qualifier(x) == IF contains(x, DOT) THEN split1_after(x, DOT) ELSE x

\* a misordering of the rules: the last-underscore rule tried before the type prefix
extract_status_value_underscore_first(type_gid, value_gid) ==
    LET val       == strip_qualifier(value_gid)
        type_name == strip_qualifier(type_gid)
    IN  IF contains(val, SEP_DASH) THEN strip(split1_after(val, SEP_DASH))
        ELSE IF contains(val, UNDERSCORE) THEN strip(rsplit1_last(val, UNDERSCORE))
        ELSE IF startswith(upper(val), upper(type_name) \o UNDERSCORE)
        THEN strip(SubSeq(val, Len(type_name) + 2, Len(val)))
        ELSE strip(val)

extract_status_value(type_gid, value_gid) ==
    LET val       == strip_qualifier(value_gid)
        type_name == strip_qualifier(type_gid)
    IN  IF contains(val, SEP_DASH) THEN strip(split1_after(val, SEP_DASH))
        ELSE IF startswith(upper(val), upper(type_name) \o UNDERSCORE)
        THEN strip(SubSeq(val, Len(type_name) + 2, Len(val)))
        ELSE IF contains(val, UNDERSCORE) THEN strip(rsplit1_last(val, UNDERSCORE))
        ELSE strip(val)

(***************************************************************************)
(* Inputs of extract_status_value: identifiers built from a few tokens,    *)
(* and the two identifiers of the documented examples.                     *)
(***************************************************************************)
MaxTokens == 4

Tokens == {<<"A">>, <<"a">>, <<"B">>, <<"_">>, <<".">>, <<" ">>, <<"-">>, SEP_DASH}

RECURSIVE Concat(_)
Concat(ss) == IF ss = <<>> THEN <<>> ELSE Head(ss) \o Concat(Tail(ss))

TokenStrings(n) == {Concat(ts) : ts \in UNION {[1..k -> Tokens] : k \in 0..n}}

BTF_RATE_IND == <<"B","T","F","_","R","A","T","E","_","I","N","D">>
SEND_SHIPMENT_USB ==
    <<"S","E","N","D","_","S","H","I","P","M","E","N","T","_","U","S","B">>
BTF_SHIP_IND == <<"B","T","F","_","S","H","I","P","_","I","N","D">>
SENT_TO_USB  == <<"S","E","N","T","_","T","O","_","U","S","B">>
REPROCESS    == <<"R","E","P","R","O","C","E","S","S">>
BTF_RATE     == <<"B","T","F","_","R","A","T","E">>

\* "BTF_RATE_IND.BTF_RATE - REPROCESS"
ExampleValueBTF == BTF_RATE_IND \o DOT \o BTF_RATE \o SEP_DASH \o REPROCESS
\* "SEND_SHIPMENT_USB_R"
ExampleValueUSB == SEND_SHIPMENT_USB \o <<"_", "R">>

StatusTypeGids ==
    {<<"A">>, <<"K", ".", "A">>, <<"A", "_", "B">>, BTF_RATE_IND, SEND_SHIPMENT_USB}

StatusValueGids == TokenStrings(MaxTokens) \cup {ExampleValueBTF, ExampleValueUSB}

(***************************************************************************)
(* extract_xid_from_link                                                   *)
(***************************************************************************)
SLASH     == <<"/">>
CANONICAL == <<"c","a","n","o","n","i","c","a","l">>
SELF      == <<"s","e","l","f">>

\* the value returned for a link the loop stops at
xid_of_href(href) ==
    LET last == rsplit1_last(href, SLASH)
    IN  IF contains(last, DOT) THEN Str(split1_after(last, DOT)) ELSE Str(last)

\* a loop that stops at the first link of the relation, whatever its href
RECURSIVE xid_scan_first_rel_only(_, _)
xid_scan_first_rel_only(ls, r) ==
    IF ls = <<>> THEN None
    ELSE LET link == Head(ls)
             href == IF link.t = "dict" THEN Get(link, "href", Str(<<>>)) ELSE None
         IN  IF link.t # "dict" THEN Raise("AttributeError")
             ELSE IF Get(link, "rel", None) # r THEN xid_scan_first_rel_only(Tail(ls), r)
             ELSE IF href.t # "str" THEN Raise("TypeError")
             ELSE IF contains(href.s, SLASH) THEN xid_of_href(href.s)
             ELSE None

\* the for loop of extract_xid_from_link over the links left to visit
RECURSIVE xid_scan(_, _)
xid_scan(ls, r) ==
    IF ls = <<>> THEN None
    ELSE LET link == Head(ls)
             href == IF link.t = "dict" THEN Get(link, "href", Str(<<>>)) ELSE None
         IN  IF link.t # "dict" THEN Raise("AttributeError")
             ELSE IF Get(link, "rel", None) # r THEN xid_scan(Tail(ls), r)
             ELSE IF href.t # "str" THEN Raise("TypeError")
             ELSE IF contains(href.s, SLASH) THEN xid_of_href(href.s)
             ELSE xid_scan(Tail(ls), r)

\* extract_xid_from_link(links, rel): links is the Python value passed
extract_xid_from_link(lks, r) ==
    CASE IsRaise(lks)    -> lks
      [] lks.t = "list"  -> xid_scan(lks.l, r)
         \* the elements of a str or of a dict are strs: link.get fails on the first
      [] lks.t \in {"str", "dict"} ->
            IF Truthy(lks) THEN Raise("AttributeError") ELSE None
      [] OTHER           -> Raise("TypeError")

(***************************************************************************)
(* parse_inline_statuses, parse_refnums, parse_shipment                    *)
(***************************************************************************)
FP_STATUS_TYPES == {BTF_SHIP_IND, BTF_RATE_IND, SEND_SHIPMENT_USB, SENT_TO_USB}

DATA_SOURCE_QUALIFIER == <<"D","A","T","A","_","S","O","U","R","C","E">>

\* the for loop of parse_inline_statuses over the items left, result so far
RECURSIVE statuses_loop(_, _)
statuses_loop(items, result) ==
    IF items = <<>> THEN Dict(result)
    ELSE
    LET item      == Head(items)
        type_gid  == GetAttr(item, "statusTypeGid", EmptyStr)
        value_gid == GetAttr(item, "statusValueGid", EmptyStr)
    IN  IF IsRaise(type_gid) THEN type_gid
        ELSE IF type_gid.t # "str" THEN Raise("TypeError")
        ELSE
        LET type_key == strip_qualifier(type_gid.s)
            update   == Or(Or(Get(item, "updateDate", None),
                              Get(item, "insertDate", None)), EmptyDict)
        IN  IF type_key \notin FP_STATUS_TYPES THEN statuses_loop(Tail(items), result)
            ELSE IF value_gid.t # "str" THEN Raise("TypeError")
            ELSE IF update.t # "dict" THEN Raise("AttributeError")
            ELSE statuses_loop(Tail(items),
                     Put(result, type_key,
                         Dict([value      |-> Str(extract_status_value(type_gid.s,
                                                                         value_gid.s)),
                               updateDate |-> Get(update, "value", None)])))

\* (raw or {}).get("items", []), ready to be iterated
items_of(raw_container) ==
    LET items == GetAttr(Or(raw_container, EmptyDict), "items", EmptyList)
    IN  CASE IsRaise(items)    -> items
          [] items.t = "list"  -> items
             \* the elements of a str or of a dict are strs: item.get fails on the first
          [] items.t \in {"str", "dict"} ->
                IF Truthy(items) THEN Raise("AttributeError") ELSE EmptyList
          [] OTHER             -> Raise("TypeError")

\* data.get("items", []) of a response body, ready to be iterated
items_of_body(data) ==
    LET items == GetAttr(data, "items", EmptyList)
    IN  CASE IsRaise(data)     -> data
          [] IsRaise(items)    -> items
          [] items.t = "list"  -> items
          [] items.t \in {"str", "dict"} ->
                IF Truthy(items) THEN Raise("AttributeError") ELSE EmptyList
          [] OTHER             -> Raise("TypeError")

parse_inline_statuses(raw_statuses) ==
    LET items == items_of(raw_statuses)
    IN  IF IsRaise(items) THEN items ELSE statuses_loop(items.l, <<>>)

\* the for loop of parse_refnums over the items left
RECURSIVE refnums_loop(_)
refnums_loop(items) ==
    IF items = <<>> THEN None
    ELSE
    LET item      == Head(items)
        qualifier == GetAttr(item, "shipmentRefnumQualGid", EmptyStr)
    IN  IF IsRaise(qualifier) THEN qualifier
        ELSE IF qualifier.t # "str" THEN Raise("TypeError")
        ELSE IF upper(strip_qualifier(qualifier.s)) = DATA_SOURCE_QUALIFIER
        THEN Get(item, "shipmentRefnumValue", None)
        ELSE refnums_loop(Tail(items))

parse_refnums(raw_refnums) ==
    LET items == items_of(raw_refnums)
    IN  IF IsRaise(items) THEN items ELSE refnums_loop(items.l)

\* raw.get(key, {}) or {}: a wrapper that a null replaces by the empty dict
wrapper_or_empty(raw, key) == Or(Get(raw, key, EmptyDict), EmptyDict)

\* raw.get(key, {}).get("links", [])
links_of(raw, key) == GetAttr(Get(raw, key, EmptyDict), "links", EmptyList)

\* the first exception among the values, in evaluation order, NotCalled when none
RECURSIVE FirstRaise(_)
FirstRaise(vs) ==
    IF vs = <<>> THEN NotCalled
    ELSE IF IsRaise(Head(vs)) THEN Head(vs)
    ELSE FirstRaise(Tail(vs))

parse_shipment(raw) ==
    IF raw.t # "dict" THEN Raise("AttributeError")
    ELSE
    LET src_links   == links_of(raw, "sourceLocation")
        dst_links   == links_of(raw, "destLocation")
        svc_links   == links_of(raw, "servprov")
        weight      == wrapper_or_empty(raw, "totalWeight")
        volume      == wrapper_or_empty(raw, "totalVolume")
        cost        == wrapper_or_empty(raw, "totalActualCost")
        start       == wrapper_or_empty(raw, "startTime")
        end         == wrapper_or_empty(raw, "endTime")
        ins         == wrapper_or_empty(raw, "insertDate")
        upd         == wrapper_or_empty(raw, "updateDate")
        statuses    == parse_inline_statuses(Get(raw, "statuses", EmptyDict))
        data_source == parse_refnums(Get(raw, "refnums", EmptyDict))
        is_fp       == IF IsRaise(statuses) THEN statuses
                       ELSE Or(Get(raw, "shipmentAsWork", Bool(FALSE)),
                               Bool(SEND_SHIPMENT_USB \in DOMAIN statuses.f))
        early       == FirstRaise(<<src_links, dst_links, svc_links,
                                    statuses, data_source>>)
        carrier     == extract_xid_from_link(svc_links, Str(CANONICAL))
        source      == extract_xid_from_link(src_links, Str(CANONICAL))
        dest        == extract_xid_from_link(dst_links, Str(CANONICAL))
        fields      == <<carrier, source, dest,
                         GetAttr(start, "value", None), GetAttr(end, "value", None),
                         GetAttr(ins, "value", None), GetAttr(upd, "value", None),
                         GetAttr(weight, "value", None), GetAttr(weight, "unit", None),
                         GetAttr(volume, "value", None), GetAttr(volume, "unit", None),
                         GetAttr(cost, "value", None), GetAttr(cost, "currency", None)>>
    IN  IF IsRaise(early) THEN early
        ELSE IF IsRaise(FirstRaise(fields)) THEN FirstRaise(fields)
        ELSE Dict([shipmentXid      |-> Get(raw, "shipmentXid", None),
                   shipmentName     |-> Get(raw, "shipmentName", None),
                   transportMode    |-> Get(raw, "transportModeGid", None),
                   carrier          |-> carrier,
                   sourceLocation   |-> source,
                   destLocation     |-> dest,
                   startTime        |-> Get(start, "value", None),
                   endTime          |-> Get(end, "value", None),
                   insertDate       |-> Get(ins, "value", None),
                   updateDate       |-> Get(upd, "value", None),
                   totalWeight      |-> Get(weight, "value", None),
                   weightUnit       |-> Get(weight, "unit", None),
                   totalVolume      |-> Get(volume, "value", None),
                   volumeUnit       |-> Get(volume, "unit", None),
                   totalActualCost  |-> Get(cost, "value", None),
                   currency         |-> Get(cost, "currency", None),
                   shipmentAsWork   |-> is_fp,
                   perspective      |-> Get(raw, "perspective", None),
                   attribute10      |-> Get(raw, "attribute10", None),
                   attributeNumber1 |-> Get(raw, "attributeNumber1", None),
                   dataSource       |-> data_source,
                   statuses         |-> statuses])

(***************************************************************************)
(* fetch_query                                                             *)
(***************************************************************************)
\* a str the code builds once and never takes apart
Name(id) == [t |-> "name", id |-> id]

ALL_QUERIES ==
    << Name("KFNA.FP_SHP_NAME_DIRECT"),
       Name("KFNA.FP_SHP_NAME_INDIRECT"),
       Name("KFNA.FP_ORD_DIRECT"),
       Name("KFNA.FP_ORD_INDIRECT"),
       Name("KFNA.FP_ORD_PL_SHP_DIRECT"),
       Name("KFNA.FP_SHP_NAME_SAP") >>

\* What the GET of one dispatch meets.
\* Transport(msg): client.get raises an exception whose str() is msg.
\* Response(status_code, text, json): a response arrives; json is what
\* resp.json() returns, or the exception it raises on an unparsable body.
Transport(msg) == [kind |-> "transport", msg |-> msg]
Response(status_code, text, json) ==
    [kind |-> "response", status_code |-> status_code, text |-> text, json |-> json]

DIGITS == <<"0","1","2","3","4","5","6","7","8","9">>

\* str(n) of a natural number
RECURSIVE str_int(_)
str_int(n) ==
    IF n < 10 THEN <<DIGITS[n + 1]>> ELSE str_int(n \div 10) \o <<DIGITS[(n % 10) + 1]>>

\* s[:n]
prefix(s, n) == SubSeq(s, 1, IF Len(s) < n THEN Len(s) ELSE n)

ERROR_TEXT_LIMIT == 200

\* resp.is_success
is_success(status_code) == status_code >= 200 /\ status_code <= 299

\* [parse_shipment(i) for i in items]: the records, or the first exception.
\* parse_rest parses the items left after the records in done; parse_next takes
\* the value parse_shipment gave for the item before them.
RECURSIVE parse_rest(_, _), parse_next(_, _, _)
parse_next(first, raws, done) ==
    IF IsRaise(first) THEN first ELSE parse_rest(raws, Append(done, first))

parse_rest(raws, done) ==
    IF raws = <<>> THEN List(done)
    ELSE parse_next(parse_shipment(Head(raws)), Tail(raws), done)

parse_all(raw_items) ==
    IF IsRaise(raw_items) THEN raw_items ELSE parse_rest(raw_items.l, <<>>)

Envelope(query_name, count, hasMore, items, error) ==
    Dict([query |-> query_name, count |-> count, hasMore |-> hasMore,
          items |-> items, error |-> error])

\* the return statement of the try block, items being the parsed list or the
\* exception that data.get or parse_shipment raised
success_envelope(data, items, query_name) ==
    IF IsRaise(data) THEN data
    ELSE IF IsRaise(items) THEN items
    ELSE Envelope(query_name,
                  Get(data, "count", Num(Len(items.l))),
                  Get(data, "hasMore", Bool(FALSE)),
                  items, None)

\* the try block of fetch_query: the envelope it returns, or the exception raised
fetch_try(resp, query_name) ==
    IF resp.kind = "transport" THEN Exc("TransportError", resp.msg)
    ELSE IF ~is_success(resp.status_code)
    THEN [t |-> "raise", exc |-> "HTTPStatusError", msg |-> BUILTIN_MSG,
          status_code |-> resp.status_code, text |-> resp.text]
    ELSE success_envelope(resp.json, parse_all(items_of_body(resp.json)), query_name)

\* the envelope of the except httpx.HTTPStatusError clause
http_error_envelope(e, query_name) ==
    Envelope(query_name, Num(0), Bool(FALSE), EmptyList,
             Str(<<"H","T","T","P"," ">> \o str_int(e.status_code)
                 \o <<":"," ">> \o prefix(e.text, ERROR_TEXT_LIMIT)))

\* except clauses that let an exception other than HTTPStatusError reach the caller
except_clauses_no_catch_all(r, query_name) ==
    IF ~IsRaise(r) THEN r
    ELSE IF r.exc = "HTTPStatusError" THEN http_error_envelope(r, query_name)
    ELSE r

\* the except clauses of fetch_query applied to what the try block gave
except_clauses(r, query_name) ==
    IF ~IsRaise(r) THEN r
    ELSE IF r.exc = "HTTPStatusError" THEN http_error_envelope(r, query_name)
    ELSE Envelope(query_name, Num(0), Bool(FALSE), EmptyList, Str(r.msg))

\* a fetch_query without the except Exception clause
fetch_query_no_catch_all(resp, query_name) ==
    except_clauses_no_catch_all(fetch_try(resp, query_name), query_name)

fetch_query(resp, query_name) == except_clauses(fetch_try(resp, query_name), query_name)

(***************************************************************************)
(* search_single                                                           *)
(***************************************************************************)
QueryIds == 1..Len(ALL_QUERIES)

\* the items of the envelopes rs[i..], in order
RECURSIVE all_items(_, _)
all_items(rs, i) ==
    IF i > Len(rs) THEN <<>> ELSE rs[i].f.items.l \o all_items(rs, i + 1)

\* a merge that lets a later record of an identifier replace the one kept
RECURSIVE merge_loop_last_wins(_, _, _)
merge_loop_last_wins(items, seen, merged) ==
    IF items = <<>> THEN merged
    ELSE LET item == Head(items)
             xid  == item.f.shipmentXid
         IN  IF xid \notin seen
             THEN merge_loop_last_wins(Tail(items), seen \cup {xid}, Append(merged, item))
             ELSE merge_loop_last_wins(Tail(items), seen,
                      [k \in 1..Len(merged) |->
                          IF merged[k].f.shipmentXid = xid THEN item ELSE merged[k]])

\* the two nested for loops of search_single over the items left to visit
RECURSIVE merge_loop(_, _, _)
merge_loop(items, seen, merged) ==
    IF items = <<>> THEN merged
    ELSE LET item == Head(items)
             xid  == item.f.shipmentXid
         IN  IF xid \notin seen
             THEN merge_loop(Tail(items), seen \cup {xid}, Append(merged, item))
             ELSE merge_loop(Tail(items), seen, merged)

\* [r["error"] for r in results]
errors_of(rs) == [i \in 1..Len(rs) |-> rs[i].f.error]

\* [r["error"] for r in results if r["error"]]
errors_list(rs) == SelectSeq(errors_of(rs), Truthy)

\* the dict search_single returns once gather has returned the envelopes rs
search_result(term, rs) ==
    LET merged == merge_loop(all_items(rs, 1), {}, <<>>)
    IN  Dict([searchValue |-> Str(strip(term)),
              totalCount  |-> Num(Len(merged)),
              queries     |-> List([i \in 1..Len(rs) |->
                                      Dict([name  |-> rs[i].f.query,
                                            count |-> rs[i].f.count,
                                            error |-> rs[i].f.error])]),
              errors      |-> List(errors_list(rs)),
              items       |-> List(merged)])

\* a gather that returns as soon as one dispatch has resolved, the dispatches
\* still in flight counted as envelopes without items
gather_first_completed(rs) ==
    IF \E i \in DOMAIN rs : IsRaise(rs[i])
    THEN rs[CHOOSE i \in DOMAIN rs : IsRaise(rs[i])]
    ELSE IF \A i \in DOMAIN rs : rs[i] = NotCalled THEN NotCalled
    ELSE List([i \in DOMAIN rs |->
                 IF rs[i] = NotCalled
                 THEN Envelope(ALL_QUERIES[i], Num(0), Bool(FALSE), EmptyList, None)
                 ELSE rs[i]])

\* await asyncio.gather(*coroutines) over the dispatches rs: NotCalled while it
\* is pending, the first exception of a dispatch that raised, else the list of
\* all results in the order of the coroutines
gather(rs) ==
    IF \E i \in DOMAIN rs : IsRaise(rs[i])
    THEN rs[CHOOSE i \in DOMAIN rs : IsRaise(rs[i])]
    ELSE IF \E i \in DOMAIN rs : rs[i] = NotCalled THEN NotCalled
    ELSE List(rs)

\* search_single from the await on: the exception gather raises, else the result
search_return(term, rs) ==
    LET got == gather(rs)
    IN  IF IsRaise(got) THEN got ELSE search_result(term, got.l)

(***************************************************************************)
(* bulk_search                                                             *)
(***************************************************************************)
COMMA == <<",">>

\* s.split(",")
RECURSIVE split(_, _)
split(s, sep) ==
    IF contains(s, sep)
    THEN <<SubSeq(s, 1, find(s, sep) - 1)>> \o split(split1_after(s, sep), sep)
    ELSE <<s>>

\* [v.strip() for v in pieces if v.strip()]
RECURSIVE stripped_non_empty(_)
stripped_non_empty(pieces) ==
    IF pieces = <<>> THEN <<>>
    ELSE (IF Len(strip(Head(pieces))) > 0 THEN <<strip(Head(pieces))>> ELSE <<>>)
         \o stripped_non_empty(Tail(pieces))

\* raw_values = [v.strip() for v in values.split(",") if v.strip()]
raw_values_of(body) == stripped_non_empty(split(body, COMMA))

MAX_BULK_VALUES == 100

\* a limit that already refuses MAX_BULK_VALUES terms
too_many_from_limit(terms) == Len(terms) >= MAX_BULK_VALUES

\* len(raw_values) > 100
too_many(terms) == Len(terms) > MAX_BULK_VALUES

HTTPException(status_code, detail) ==
    [t |-> "raise", exc |-> "HTTPException", status_code |-> status_code,
     detail |-> detail]

\* the two checks of bulk_search: the HTTPException raised, NotCalled when none is
bulk_validate(terms) ==
    IF Len(terms) = 0 THEN HTTPException(400, Name("No search values provided."))
    ELSE IF too_many(terms)
    THEN HTTPException(400, Name("Maximum 100 values per bulk request."))
    ELSE NotCalled

\* sum(r["totalCount"] for r in group_results)
RECURSIVE total_count(_)
total_count(rs) ==
    IF rs = <<>> THEN 0 ELSE Head(rs).f.totalCount.n + total_count(Tail(rs))

\* a gather that hands the results back in the order the searches ended
bulk_gather_as_completed(rs, order) ==
    IF \E i \in DOMAIN rs : IsRaise(rs[i])
    THEN rs[CHOOSE i \in DOMAIN rs : IsRaise(rs[i])]
    ELSE IF \E i \in DOMAIN rs : rs[i] = NotCalled THEN NotCalled
    ELSE List([k \in DOMAIN rs |-> rs[order[k]]])

\* await asyncio.gather(*coroutines) over the searches rs, which ended in the
\* order given: the results in the order of the coroutines
bulk_gather(rs, order) == gather(rs)

\* bulk_search from the await on: the exception gather raises, else the response
bulk_return(terms, got) ==
    IF IsRaise(got) THEN got
    ELSE Dict([totalValues    |-> Num(Len(terms)),
               totalShipments |-> Num(total_count(got.l)),
               results        |-> got])

(***************************************************************************)
(* trigger_btf, trigger_usb, send_to_po                                    *)
(***************************************************************************)
TRIGGERS == {"trigger_btf", "trigger_usb", "send_to_po"}

\* The XML message of a trigger: the parts of the template that differ between
\* the three templates, and the shipment identifier put into it as it is.
build_payload(op, xid) ==
    CASE op = "trigger_btf" ->
            [header |-> Name("Refnum TYPE=BTFTOOTM, DataQueueGid BTFRECON"),
             xid |-> xid,
             status_type |-> Name("BTF_RATE_IND"),
             status_value |-> Name("BTF_RATE - REPROCESS")]
      [] op = "trigger_usb" ->
            [header |-> Name(""),
             xid |-> xid,
             status_type |-> Name("SEND_SHIPMENT_USB"),
             status_value |-> Name("SEND_SHIPMENT_USB - R")]
      [] op = "send_to_po" ->
            [header |-> Name(""),
             xid |-> xid,
             status_type |-> Name("SEND_SHIPMENT_PO"),
             status_value |-> Name("SEND_SHIPMENT_PO - R")]

\* client.post(OTM_WMSERVLET, content=payload, headers=..., auth=..., timeout=30)
post_request(payload) ==
    [url |-> Name("OTM_WMSERVLET"), content |-> payload,
     content_type |-> Name("application/xml"), timeout |-> 30]

RESPONSE_TEXT_LIMIT == 500

ERROR_STATUS_FROM == 400

\* a status that counts 400 itself as a success
trigger_status_400_ok(status_code) ==
    IF status_code <= ERROR_STATUS_FROM THEN Name("ok") ELSE Name("error")

\* "ok" if resp.status_code < 400 else "error"
trigger_status(status_code) ==
    IF status_code < ERROR_STATUS_FROM THEN Name("ok") ELSE Name("error")

\* what a trigger operation returns or raises once the POST met outcome
trigger_outcome(xid, outcome) ==
    IF outcome.kind = "transport" THEN HTTPException(500, Str(outcome.msg))
    ELSE Dict([status      |-> trigger_status(outcome.status_code),
               httpStatus  |-> Num(outcome.status_code),
               shipmentXid |-> Str(xid),
               response    |-> Str(prefix(outcome.text, RESPONSE_TEXT_LIMIT))])

(***************************************************************************)
(* Inputs of extract_xid_from_link: up to MaxLinks link descriptors, each  *)
(* with or without a rel and an href.                                      *)
(***************************************************************************)
MaxLinks == 2

Absent == [t |-> "absent"]

\* a dict from <<key, value>> pairs, leaving out the keys whose value is Absent
DictOf(pairs) == Dict(Obj({p \in pairs : p[2] # Absent}))

LinkRels == {Absent, Str(CANONICAL), Str(SELF)}

LinkHrefs ==
    { Absent,
      Str(<<"x","Y">>),                     \* no "/"
      Str(<<"x","/","Y">>),                 \* segment without qualifier
      Str(<<"x","/","K",".","Y">>),         \* qualified segment
      Str(<<"h","/","x","/","K",".","Z",".","1">>),
      Str(<<"x","/">>) }                    \* empty last segment

LinkSet == {DictOf({<<"rel", r>>, <<"href", h>>}) : r \in LinkRels, h \in LinkHrefs}

LinkLists == UNION {[1..k -> LinkSet] : k \in 0..MaxLinks}

(***************************************************************************)
(* Inputs of parse_shipment: a complete raw item of the saved-query        *)
(* response in which at most one field is left out or null.                *)
(***************************************************************************)
Paths ==
    { "shipmentXid", "shipmentName", "transportModeGid", "shipmentAsWork",
      "perspective", "attribute10", "attributeNumber1",
      "totalWeight", "totalWeight.value", "totalWeight.unit",
      "totalVolume", "totalActualCost", "totalActualCost.currency",
      "startTime", "startTime.value", "endTime", "insertDate", "updateDate",
      "sourceLocation", "sourceLocation.links",
      "destLocation", "destLocation.links",
      "servprov", "servprov.links", "servprov.links.rel", "servprov.links.href",
      "statuses", "statuses.items", "statuses.items.statusTypeGid",
      "statuses.items.statusValueGid", "statuses.items.updateDate",
      "statuses.items.insertDate",
      "refnums", "refnums.items", "refnums.items.shipmentRefnumQualGid",
      "refnums.items.shipmentRefnumValue" }

Intact == [p \in Paths |-> "ok"]

\* the damages of at most one field: the field is left out ("absent") or null
Damages ==
    {Intact} \cup {[Intact EXCEPT ![p] = m] : p \in Paths, m \in {"absent", "null"}}

\* the raw item of shipment xid named name under damage d
RawItem(xid, name, d) ==
    LET V(p, v) == CASE d[p] = "ok"     -> v
                     [] d[p] = "absent" -> Absent
                     [] d[p] = "null"   -> None
        Link(relp, hrefp, href) ==
            DictOf({<<"rel", V(relp, Str(CANONICAL))>>, <<"href", V(hrefp, Str(href))>>})
        Ref(p, linksp, href) ==
            V(p, DictOf({<<"links", V(linksp, List(<<Link(p, p, href)>>))>>}))
        Stamp(p, v) == V(p, DictOf({<<"value", Str(v)>>}))
    IN  DictOf({
          <<"shipmentXid", V("shipmentXid", Str(xid))>>,
          <<"shipmentName", V("shipmentName", Str(name))>>,
          <<"transportModeGid", V("transportModeGid", Str(<<"T","L">>))>>,
          <<"shipmentAsWork", V("shipmentAsWork", Bool(FALSE))>>,
          <<"perspective", V("perspective", Str(<<"B">>))>>,
          <<"attribute10", V("attribute10", Str(<<"x">>))>>,
          <<"attributeNumber1", V("attributeNumber1", Num(1))>>,
          <<"totalWeight", V("totalWeight", DictOf({
                <<"value", V("totalWeight.value", Num(10))>>,
                <<"unit", V("totalWeight.unit", Str(<<"L","B">>))>>}))>>,
          <<"totalVolume", V("totalVolume", DictOf({
                <<"value", Num(3)>>, <<"unit", Str(<<"C","U","F","T">>)>>}))>>,
          <<"totalActualCost", V("totalActualCost", DictOf({
                <<"value", Num(250)>>,
                <<"currency", V("totalActualCost.currency", Str(<<"U","S","D">>))>>}))>>,
          <<"startTime", V("startTime", DictOf({
                <<"value", V("startTime.value", Str(<<"t","1">>))>>}))>>,
          <<"endTime", Stamp("endTime", <<"t","2">>)>>,
          <<"insertDate", Stamp("insertDate", <<"t","3">>)>>,
          <<"updateDate", Stamp("updateDate", <<"t","4">>)>>,
          <<"sourceLocation",
            Ref("sourceLocation", "sourceLocation.links", <<"l","/","K",".","S","R","C">>)>>,
          <<"destLocation",
            Ref("destLocation", "destLocation.links", <<"l","/","K",".","D","S","T">>)>>,
          <<"servprov", V("servprov", DictOf({
                <<"links", V("servprov.links", List(<<
                    DictOf({<<"rel", Str(SELF)>>, <<"href", Str(<<"c","/","X",".","1">>)>>}),
                    Link("servprov.links.rel", "servprov.links.href",
                         <<"c","/","K",".","C","A","R">>)>>))>>}))>>,
          <<"statuses", V("statuses", DictOf({
                <<"items", V("statuses.items", List(<<
                    DictOf({<<"statusTypeGid", Str(<<"K",".","O","T","H","E","R">>)>>,
                            <<"statusValueGid", Str(<<"K",".","O","T","H","E","R","_","X">>)>>}),
                    DictOf({<<"statusTypeGid",
                              V("statuses.items.statusTypeGid",
                                Str(<<"K",".">> \o SEND_SHIPMENT_USB))>>,
                            <<"statusValueGid",
                              V("statuses.items.statusValueGid",
                                Str(<<"K",".">> \o SEND_SHIPMENT_USB \o <<"_","R">>))>>,
                            <<"updateDate", Stamp("statuses.items.updateDate", <<"u","1">>)>>,
                            <<"insertDate", Stamp("statuses.items.insertDate", <<"i","1">>)>>
                           })>>))>>}))>>,
          <<"refnums", V("refnums", DictOf({
                <<"items", V("refnums.items", List(<<
                    DictOf({<<"shipmentRefnumQualGid", Str(<<"K",".","B","M">>)>>,
                            <<"shipmentRefnumValue", Str(<<"7">>)>>}),
                    DictOf({<<"shipmentRefnumQualGid",
                              V("refnums.items.shipmentRefnumQualGid",
                                Str(<<"K",".">> \o DATA_SOURCE_QUALIFIER))>>,
                            <<"shipmentRefnumValue",
                              V("refnums.items.shipmentRefnumValue",
                                Str(<<"S","A","P">>))>>})>>))>>}))>>
        })

XID_1 == <<"S","1">>
XID_2 == <<"S","2">>

\* an intact raw item
GoodItem(xid, name) == RawItem(xid, name, Intact)

DamagedItems == {RawItem(XID_2, <<"n">>, d) : d \in Damages}

(***************************************************************************)
(* Inputs of fetch_query: what the GET can meet                            *)
(***************************************************************************)
MaxItems == 2

\* item lists with one item of DamagedItems at any place among intact items
ItemLists ==
    {<<>>} \cup
    UNION {{[i \in 1..n |-> IF i = k THEN it ELSE GoodItem(XID_1, <<"m">>)] :
                k \in 1..n, it \in DamagedItems} : n \in 1..MaxItems}

Bodies ==
    {DictOf({<<"items", List(its)>>, <<"count", c>>, <<"hasMore", h>>}) :
        its \in ItemLists, c \in {Absent, Num(7)}, h \in {Absent, Bool(TRUE)}}
    \cup {DictOf({<<"items", i>>, <<"count", Num(7)>>}) : i \in {Absent, None}}

TIMED_OUT == <<"t","i","m","e","d"," ","o","u","t">>
PAGE      == <<"<","h","t","m","l",">">>

FetchOutcomes ==
    {Transport(m) : m \in {<<>>, TIMED_OUT}}
    \cup {Response(c, PAGE, Raise("JSONDecodeError")) : c \in {200, 302, 404, 500}}
    \cup {Response(200, <<"n","u","l","l">>, None), Response(200, <<"[","]">>, EmptyList)}
    \cup {Response(c, <<"{","}">>, b) : c \in {200, 201}, b \in Bodies}

(***************************************************************************)
(* Inputs of search_single: the search terms, and what each of the six     *)
(* GETs can meet.  The same shipment comes back under several records,     *)
(* across responses and inside one.                                        *)
(***************************************************************************)
SearchTerms == {<<"4","2">>, <<" ","4","2"," ">>}

NullLocationItem == RawItem(XID_2, <<"z">>, [Intact EXCEPT !["sourceLocation"] = "null"])

NoXidItem == RawItem(XID_2, <<"y">>, [Intact EXCEPT !["shipmentXid"] = "absent"])

SearchBody(its) == DictOf({<<"items", List(its)>>})

SearchOutcomes ==
    { Transport(<<>>),
      Response(500, PAGE, Raise("JSONDecodeError")),
      Response(200, <<"{","}">>, SearchBody(<<GoodItem(XID_1, <<"a">>)>>)),
      Response(200, <<"{","}">>,
               SearchBody(<<GoodItem(XID_2, <<"b">>), GoodItem(XID_1, <<"c">>),
                            GoodItem(XID_2, <<"d">>)>>)),
      Response(200, <<"{","}">>, SearchBody(<<NoXidItem, GoodItem(XID_1, <<"e">>)>>)),
      Response(200, <<"{","}">>, SearchBody(<<GoodItem(XID_1, <<"f">>), NullLocationItem>>)) }

(***************************************************************************)
(* Inputs of bulk_search.  BulkBodies: up to MaxEntries comma-separated    *)
(* entries, blank or not.  LongBodies: a few entries followed by up to     *)
(* MaxRepeat further terms, to reach the limit of MAX_BULK_VALUES.         *)
(***************************************************************************)
MaxEntries == 3

Entries == {<<>>, <<" ">>, <<"a">>, <<" ","a"," ">>, <<"b"," ","c">>}

RECURSIVE join(_, _)
join(pieces, sep) ==
    IF Len(pieces) = 0 THEN <<>>
    ELSE IF Len(pieces) = 1 THEN pieces[1]
    ELSE pieces[1] \o sep \o join(Tail(pieces), sep)

BulkBodies == {join(es, COMMA) : es \in UNION {[1..k -> Entries] : k \in 0..MaxEntries}}

MaxRepeat == 102

\* n copies of s, one after the other
repeat(s, n) == [i \in 1..(n * Len(s)) |-> s[((i - 1) % Len(s)) + 1]]

LongHeads == {<<>>, <<" ", ",">>, <<"b", ",">>, <<",", ",", " ", "b", " ", ",">>}

LongBodies ==
    {h \o repeat(<<"a", ",">>, n) \o t :
        h \in LongHeads, n \in 0..MaxRepeat, t \in {<<>>, <<" ">>}}

\* the six outcomes of the GETs of one term's search
SearchProfiles ==
    { [i \in QueryIds |-> Transport(<<>>)],
      [i \in QueryIds |-> Response(200, <<"{","}">>, SearchBody(<<GoodItem(XID_1, <<"a">>)>>))],
      [i \in QueryIds |->
          IF i = 2 THEN Response(500, PAGE, Raise("JSONDecodeError"))
          ELSE Response(200, <<"{","}">>,
                        SearchBody(<<GoodItem(XID_2, <<"b">>), GoodItem(XID_1, <<"c">>),
                                     GoodItem(XID_2, <<"d">>)>>))] }

\* the envelopes gather returns to search_single under each profile
ProfileEnvelopes ==
    {[i \in QueryIds |-> fetch_query(pr[i], ALL_QUERIES[i])] : pr \in SearchProfiles}

(***************************************************************************)
(* Inputs of the trigger operations                                        *)
(***************************************************************************)
TriggerXids == {XID_1, <<"A","&","B">>}

LongTextLen == 501

TriggerTexts == {<<>>, PAGE, repeat(<<"x">>, LongTextLen)}

TriggerStatusCodes == {200, 204, 302, 399, 400, 401, 404, 500, 503}

TriggerOutcomes ==
    {Transport(m) : m \in {<<>>, TIMED_OUT}}
    \cup {Response(c, t, None) : c \in TriggerStatusCodes, t \in TriggerTexts}

\* what fetch_query returns to gather for query i, over the outcomes of its GET
Resolutions ==
    [i \in QueryIds |-> {fetch_query(o, ALL_QUERIES[i]) : o \in SearchOutcomes}]

(***************************************************************************)
(* Initial conditions of the components                                    *)
(***************************************************************************)
StatusIdle ==
    /\ status_type_gid = <<>>
    /\ status_value_gid = <<>>
    /\ status_out = NotCalled

LinkIdle ==
    /\ links = List(<<>>)
    /\ rel = Str(CANONICAL)
    /\ xid_out = NotCalled

(***************************************************************************)
(* Specification of the status decoder: one call on any input              *)
(***************************************************************************)
FetchIdle ==
    /\ fetch_resp = Transport(<<>>)
    /\ fetch_name = ALL_QUERIES[1]
    /\ fetch_out = NotCalled

SearchIdle ==
    /\ q = <<>>
    /\ search_pc = "idle"
    /\ results = [i \in QueryIds |-> NotCalled]
    /\ search_out = NotCalled

BulkIdle ==
    /\ values = <<>>
    /\ bulk_pc = "idle"
    /\ raw_values = <<>>
    /\ group_results = <<>>
    /\ completed = <<>>
    /\ bulk_out = NotCalled
    /\ gets = 0

TriggerIdle ==
    /\ trigger = "idle"
    /\ shipment_xid = <<>>
    /\ trigger_pc = "idle"
    /\ posts = <<>>
    /\ trigger_resp = NotCalled
    /\ trigger_out = NotCalled

InitStatus ==
    /\ status_type_gid \in StatusTypeGids
    /\ status_value_gid \in StatusValueGids
    /\ status_out = NotCalled
    /\ LinkIdle /\ FetchIdle /\ SearchIdle /\ BulkIdle /\ TriggerIdle

ExtractStatusValue ==
    /\ status_out = NotCalled
    /\ status_out' = Str(extract_status_value(status_type_gid, status_value_gid))
    /\ UNCHANGED <<status_type_gid, status_value_gid, linkVars, fetchVars, searchVars, bulkVars, gets, triggerVars>>

NextStatus == ExtractStatusValue

SpecStatus == InitStatus /\ [][NextStatus]_vars

(***************************************************************************)
(* Specification of the field extractor: one call on any link list         *)
(***************************************************************************)
InitLink ==
    /\ links \in {List(l) : l \in LinkLists}
    /\ rel \in {Str(CANONICAL), Str(SELF)}
    /\ xid_out = NotCalled
    /\ StatusIdle /\ FetchIdle /\ SearchIdle /\ BulkIdle /\ TriggerIdle

ExtractXidFromLink ==
    /\ xid_out = NotCalled
    /\ xid_out' = extract_xid_from_link(links, rel)
    /\ UNCHANGED <<links, rel, statusVars, fetchVars, searchVars, bulkVars, gets, triggerVars>>

NextLink == ExtractXidFromLink

SpecLink == InitLink /\ [][NextLink]_vars

(***************************************************************************)
(* Specification of the query dispatcher: one dispatch, any outcome        *)
(***************************************************************************)
InitFetch ==
    /\ fetch_resp \in FetchOutcomes
    /\ fetch_name \in {ALL_QUERIES[1], ALL_QUERIES[6]}
    /\ fetch_out = NotCalled
    /\ StatusIdle /\ LinkIdle /\ SearchIdle /\ BulkIdle /\ TriggerIdle

FetchQuery ==
    /\ fetch_out = NotCalled
    /\ fetch_out' = fetch_query(fetch_resp, fetch_name)
    /\ UNCHANGED <<fetch_resp, fetch_name, statusVars, linkVars, searchVars, bulkVars, gets, triggerVars>>

NextFetch == FetchQuery

SpecFetch == InitFetch /\ [][NextFetch]_vars

(***************************************************************************)
(* Specification of the search aggregator: one search, the six dispatches  *)
(* resolving in any order, each to any outcome                             *)
(***************************************************************************)
Init ==
    /\ q \in SearchTerms
    /\ search_pc = "start"
    /\ results = [i \in QueryIds |-> NotCalled]
    /\ search_out = NotCalled
    /\ StatusIdle /\ LinkIdle /\ FetchIdle /\ BulkIdle /\ TriggerIdle

\* search_single up to its await: the six dispatches are handed to gather
SearchDispatch ==
    /\ search_pc = "start"
    /\ search_pc' = "gathering"
    /\ gets' = gets + Len(ALL_QUERIES)
    /\ UNCHANGED <<q, results, search_out, statusVars, linkVars, fetchVars, bulkVars, triggerVars>>

\* the dispatch of query i resolves: its GET meets one of SearchOutcomes
Resolve(i) ==
    /\ search_pc = "gathering"
    /\ results[i] = NotCalled
    /\ \E r \in Resolutions[i] : results' = [results EXCEPT ![i] = r]
    /\ UNCHANGED <<q, search_pc, search_out, statusVars, linkVars, fetchVars, bulkVars, gets, triggerVars>>

\* gather returns or raises, and search_single runs to its end
SearchReturn ==
    /\ search_pc = "gathering"
    /\ gather(results) # NotCalled
    /\ search_out' = search_return(q, results)
    /\ search_pc' = "done"
    /\ UNCHANGED <<q, results, statusVars, linkVars, fetchVars, bulkVars, gets, triggerVars>>

Next ==
    \/ SearchDispatch
    \/ \E i \in QueryIds : Resolve(i)
    \/ SearchReturn

Spec == Init /\ [][Next]_vars

(***************************************************************************)
(* Specification of the bulk orchestrator: one bulk request, the per-term  *)
(* searches ending in any order.  A term's search is one step here: its    *)
(* six dispatches are interleaved in Spec.                                 *)
(***************************************************************************)
InitBulk ==
    /\ values \in BulkBodies
    /\ bulk_pc = "start"
    /\ raw_values = <<>>
    /\ group_results = <<>>
    /\ completed = <<>>
    /\ bulk_out = NotCalled
    /\ gets = 0
    /\ StatusIdle /\ LinkIdle /\ FetchIdle /\ SearchIdle /\ TriggerIdle

\* bulk_search up to its await: the body is split and checked; a refused
\* request raises, an accepted one hands one search per term to gather, each
\* of which issues its six GETs
BulkSearchStart ==
    /\ bulk_pc = "start"
    /\ raw_values' = raw_values_of(values)
    /\ bulk_out' = bulk_validate(raw_values')
    /\ bulk_pc' = IF IsRaise(bulk_out') THEN "done" ELSE "gathering"
    /\ group_results' = IF IsRaise(bulk_out') THEN <<>>
                        ELSE [i \in 1..Len(raw_values') |-> NotCalled]
    /\ gets' = IF IsRaise(bulk_out') THEN gets
               ELSE gets + Len(raw_values') * Len(ALL_QUERIES)
    /\ UNCHANGED <<values, completed, statusVars, linkVars, fetchVars, searchVars, triggerVars>>

\* the search of term i ends: search_single returns under one of the profiles
BulkResolve(i) ==
    /\ bulk_pc = "gathering"
    /\ group_results[i] = NotCalled
    /\ \E rs \in ProfileEnvelopes :
          group_results' = [group_results EXCEPT ![i] = search_return(raw_values[i], rs)]
    /\ completed' = Append(completed, i)
    /\ UNCHANGED <<values, bulk_pc, raw_values, bulk_out, gets,
                   statusVars, linkVars, fetchVars, searchVars, triggerVars>>

\* gather returns or raises, and bulk_search runs to its end
BulkReturn ==
    /\ bulk_pc = "gathering"
    /\ bulk_gather(group_results, completed) # NotCalled
    /\ bulk_out' = bulk_return(raw_values, bulk_gather(group_results, completed))
    /\ bulk_pc' = "done"
    /\ UNCHANGED <<values, raw_values, group_results, completed, gets,
                   statusVars, linkVars, fetchVars, searchVars, triggerVars>>

NextBulk ==
    \/ BulkSearchStart
    \/ \E i \in DOMAIN group_results : BulkResolve(i)
    \/ BulkReturn

SpecBulk == InitBulk /\ [][NextBulk]_vars

(***************************************************************************)
(* Specification of the bulk orchestrator at its limit: bodies of up to    *)
(* MaxRepeat and more terms.  The searches of an accepted request end      *)
(* together here, under one profile: their interleaving is in SpecBulk.    *)
(***************************************************************************)
InitBulkLimit ==
    /\ values \in LongBodies
    /\ bulk_pc = "start"
    /\ raw_values = <<>>
    /\ group_results = <<>>
    /\ completed = <<>>
    /\ bulk_out = NotCalled
    /\ gets = 0
    /\ StatusIdle /\ LinkIdle /\ FetchIdle /\ SearchIdle /\ TriggerIdle

BulkResolveAll ==
    /\ bulk_pc = "gathering"
    /\ \A i \in DOMAIN group_results : group_results[i] = NotCalled
    /\ \E rs \in ProfileEnvelopes :
          group_results' = [i \in DOMAIN group_results |-> search_return(raw_values[i], rs)]
    /\ completed' = [i \in DOMAIN group_results |-> i]
    /\ UNCHANGED <<values, bulk_pc, raw_values, bulk_out, gets,
                   statusVars, linkVars, fetchVars, searchVars, triggerVars>>

NextBulkLimit ==
    \/ BulkSearchStart
    \/ BulkResolveAll
    \/ BulkReturn

SpecBulkLimit == InitBulkLimit /\ [][NextBulkLimit]_vars

(***************************************************************************)
(* Specification of the trigger operations: one invocation                 *)
(***************************************************************************)
InitTrigger ==
    /\ trigger \in TRIGGERS
    /\ shipment_xid \in TriggerXids
    /\ trigger_pc = "start"
    /\ posts = <<>>
    /\ trigger_resp = NotCalled
    /\ trigger_out = NotCalled
    /\ StatusIdle /\ LinkIdle /\ FetchIdle /\ SearchIdle /\ BulkIdle

\* the operation up to its await: the payload is built and posted
TriggerPost ==
    /\ trigger_pc = "start"
    /\ posts' = Append(posts, post_request(build_payload(trigger, shipment_xid)))
    /\ trigger_pc' = "posting"
    /\ UNCHANGED <<trigger, shipment_xid, trigger_resp, trigger_out,
                   statusVars, linkVars, fetchVars, searchVars, bulkVars, gets>>

\* the POST meets its outcome and the operation runs to its end
TriggerEnd ==
    /\ trigger_pc = "posting"
    /\ \E o \in TriggerOutcomes :
          /\ trigger_out' = trigger_outcome(shipment_xid, o)
          /\ trigger_resp' = o
    /\ trigger_pc' = "done"
    /\ UNCHANGED <<trigger, shipment_xid, posts,
                   statusVars, linkVars, fetchVars, searchVars, bulkVars, gets>>

NextTrigger == TriggerPost \/ TriggerEnd

SpecTrigger == InitTrigger /\ [][NextTrigger]_vars

(***************************************************************************)
(* The status decoder's rules, stated on positions                         *)
(***************************************************************************)
OccursAt(s, sub, i) ==
    /\ i \in 1..Len(s)
    /\ i + Len(sub) - 1 <= Len(s)
    /\ \A k \in 1..Len(sub) : s[i + k - 1] = sub[k]

Occurs(s, sub) == \E i \in 1..Len(s) : OccursAt(s, sub, i)

FirstOcc(s, sub) ==
    CHOOSE i \in 1..Len(s) :
        OccursAt(s, sub, i) /\ \A j \in 1..(i - 1) : ~OccursAt(s, sub, j)

LastOcc(s, sub) ==
    CHOOSE i \in 1..Len(s) :
        OccursAt(s, sub, i) /\ \A j \in (i + 1)..Len(s) : ~OccursAt(s, sub, j)

\* the characters of s from position i on
From(s, i) == [k \in 1..(Len(s) - i + 1) |-> s[i + k - 1]]

\* s without its leading and trailing white space
Trimmed(s) ==
    LET ns == {i \in 1..Len(s) : ~IsSpace(s[i])}
    IN  IF ns = {} THEN <<>>
        ELSE LET a == CHOOSE i \in ns : \A j \in ns : i <= j
                 b == CHOOSE i \in ns : \A j \in ns : j <= i
             IN  [k \in 1..(b - a + 1) |-> s[a + k - 1]]

\* x without its prefix up to the first "."
Unqualified(x) == IF Occurs(x, DOT) THEN From(x, FirstOcc(x, DOT) + 1) ELSE x

\* v starts, ignoring case, with p
StartsIgnoringCase(v, p) ==
    /\ Len(p) <= Len(v)
    /\ \A k \in 1..Len(p) : Upper(v[k]) = Upper(p[k])

DecodedByRules(type_gid, value_gid) ==
    LET val == Unqualified(value_gid)
        ty  == Unqualified(type_gid)
    IN  CASE Occurs(val, SEP_DASH) ->
                Trimmed(From(val, FirstOcc(val, SEP_DASH) + 3))
          [] ~Occurs(val, SEP_DASH) /\ StartsIgnoringCase(val, ty \o UNDERSCORE) ->
                Trimmed(From(val, Len(ty) + 2))
          [] /\ ~Occurs(val, SEP_DASH)
             /\ ~StartsIgnoringCase(val, ty \o UNDERSCORE)
             /\ Occurs(val, UNDERSCORE) ->
                Trimmed(From(val, LastOcc(val, UNDERSCORE) + 1))
          [] OTHER -> Trimmed(val)

\* C8: extract_status_value applies its rules in the stated precedence: the
\* value's qualifier is stripped; then the text after the first " - ", else the
\* remainder after a case-insensitive "<type>_" prefix, else the text after the
\* last "_", else the value, each trimmed.  The two documented examples decode
\* to REPROCESS and to R.
Thm_C8 ==
    status_out # NotCalled =>
        /\ status_out = Str(DecodedByRules(status_type_gid, status_value_gid))
        /\ (status_type_gid = BTF_RATE_IND /\ status_value_gid = ExampleValueBTF
                => status_out = Str(REPROCESS))
        /\ (status_type_gid = SEND_SHIPMENT_USB /\ status_value_gid = ExampleValueUSB
                => status_out = Str(<<"R">>))

\* a decoded value with a type prefix in another case and a later underscore
Wit_C8 ==
    /\ status_type_gid = <<"A">>
    /\ status_value_gid = <<"a", "_", "_", "B">>
    /\ status_out = Str(<<"_", "B">>)

(***************************************************************************)
(* The field extractor's contract                                          *)
(***************************************************************************)
\* the link's rel is the target relation
HasRel(link, r) == Get(link, "rel", None) = r

\* the link's href, the empty string when it has none
HrefOf(link) == Get(link, "href", Str(<<>>)).s

\* the last path segment of href, without its prefix up to the first "."
SegmentXid(href) ==
    LET seg == IF Occurs(href, SLASH) THEN From(href, LastOcc(href, SLASH) + 1) ELSE href
    IN  Str(Unqualified(seg))

\* the result decided by the first link that satisfies P, absent when none does
DecidedByFirst(ls, P(_)) ==
    IF \E i \in 1..Len(ls) : P(ls[i])
    THEN LET i == CHOOSE i \in 1..Len(ls) : P(ls[i]) /\ \A j \in 1..(i - 1) : ~P(ls[j])
         IN  SegmentXid(HrefOf(ls[i]))
    ELSE None

\* C9 as stated: the first link whose rel is the target relation decides the
\* result alone, and the result is absent only when no link has that relation.
Cex_C9 ==
    xid_out # NotCalled =>
        LET P(link) == HasRel(link, rel) IN xid_out = DecidedByFirst(links.l, P)

\* C9 amended: the first link whose rel is the target relation and whose href
\* contains a "/" decides the result alone (its last path segment, stripped up
\* to the first "."); the result is absent only when no link is such a link.
Thm_C9 ==
    xid_out # NotCalled =>
        LET P(link) == HasRel(link, rel) /\ Occurs(HrefOf(link), SLASH)
        IN  xid_out = DecidedByFirst(links.l, P)

\* a link of the relation without "/" in its href is passed over and a later
\* link of the relation decides
Wit_C9 ==
    /\ rel = Str(CANONICAL)
    /\ Len(links.l) = 2
    /\ HasRel(links.l[1], rel) /\ ~Occurs(HrefOf(links.l[1]), SLASH)
    /\ HasRel(links.l[2], rel) /\ Occurs(HrefOf(links.l[2]), DOT)
    /\ xid_out = SegmentXid(HrefOf(links.l[2]))

(***************************************************************************)
(* The query dispatcher's contract                                         *)
(***************************************************************************)
\* the dispatch of fetch_resp has returned or raised
FetchDone == fetch_out # NotCalled

\* the GET met a 2xx response whose body is an object with a list of items
GoodResponse ==
    /\ fetch_resp.kind = "response"
    /\ is_success(fetch_resp.status_code)
    /\ fetch_resp.json.t = "dict"
    /\ "items" \in DOMAIN fetch_resp.json.f
    /\ fetch_resp.json.f["items"].t = "list"

\* C3: fetch_query always resolves to an envelope and never raises; an
\* envelope with an error has no items, count 0 and hasMore false; an envelope
\* without error carries the reported count, or the number of items when the
\* body reports none.
Thm_C3 ==
    FetchDone =>
        /\ ~IsRaise(fetch_out)
        /\ fetch_out.t = "dict"
        /\ DOMAIN fetch_out.f = {"query", "count", "hasMore", "items", "error"}
        /\ fetch_out.f.query = fetch_name
        /\ fetch_out.f.error # None =>
              /\ fetch_out.f.error.t = "str"
              /\ fetch_out.f.items = EmptyList
              /\ fetch_out.f.count = Num(0)
              /\ fetch_out.f.hasMore = Bool(FALSE)
        /\ fetch_out.f.error = None =>
              /\ GoodResponse \/ "items" \notin DOMAIN fetch_resp.json.f
              /\ fetch_out.f.count =
                    IF "count" \in DOMAIN fetch_resp.json.f
                    THEN fetch_resp.json.f["count"]
                    ELSE Num(Len(fetch_out.f.items.l))

\* a successful dispatch whose body reports no count: the count is the number
\* of records
Wit_C3 ==
    /\ FetchDone
    /\ GoodResponse
    /\ "count" \notin DOMAIN fetch_resp.json.f
    /\ fetch_out.f.error = None
    /\ fetch_out.f.count = Num(2)

\* C7: absent or null fields of a raw item are never an error: the envelope
\* of a 2xx response has a null error and one record per item of the response.
Cex_C7 ==
    FetchDone /\ GoodResponse =>
        /\ fetch_out.f.error = None
        /\ Len(fetch_out.f.items.l) = Len(fetch_resp.json.f["items"].l)

(***************************************************************************)
(* The search aggregator's contract                                        *)
(***************************************************************************)
\* search_single has returned its result
SearchDone == search_pc = "done" /\ search_out.t = "dict"

\* the places <<i, j>> of the items in the envelopes: item j of query i
Places ==
    UNION {{<<i, j>> : j \in 1..Len(results[i].f.items.l)} :
              i \in {k \in QueryIds : results[k] # NotCalled}}

ItemAt(pl) == results[pl[1]].f.items.l[pl[2]]

\* place a is met before place b: ALL_QUERIES order, then response order
MetBefore(a, b) == a[1] < b[1] \/ (a[1] = b[1] /\ a[2] < b[2])

XidOf(item) == item.f.shipmentXid

\* the dispatches that resolved to a captured error
Failed == {i \in QueryIds : results[i] # NotCalled /\ results[i].f.error # None}

\* C1: the merged items hold each shipment identifier of the six envelopes
\* exactly once, the record kept being the first one met in ALL_QUERIES order
\* and then response order; totalCount is the length of the merged list.
Thm_C1 ==
    SearchDone =>
        LET merged == search_out.f.items.l
        IN  /\ \A pl \in Places :
                  \E k \in 1..Len(merged) : XidOf(merged[k]) = XidOf(ItemAt(pl))
            /\ \A k, l \in 1..Len(merged) :
                  XidOf(merged[k]) = XidOf(merged[l]) => k = l
            /\ \A k \in 1..Len(merged) :
                  \E pl \in Places :
                      /\ merged[k] = ItemAt(pl)
                      /\ \A other \in Places :
                            XidOf(ItemAt(other)) = XidOf(merged[k]) => ~MetBefore(other, pl)
            /\ search_out.f.totalCount = Num(Len(merged))

\* identifiers repeated inside one envelope and across envelopes, the later
\* envelopes holding other records of them
Wit_C1 ==
    /\ SearchDone
    /\ Len(results[1].f.items.l) = 2
    /\ Len(results[2].f.items.l) = 3
    /\ Len(results[3].f.items.l) = 1
    /\ XidOf(results[2].f.items.l[1]) = XidOf(results[2].f.items.l[3])
    /\ results[2].f.items.l[1] # results[2].f.items.l[3]
    /\ Len(search_out.f.items.l) = 3

\* C2: the result is produced only after every dispatch has resolved, a failed
\* dispatch aborts nothing: the result is a Per-Term Search Result whose items
\* hold a record of every identifier the successful dispatches returned, and
\* whose queries are the summaries of the six envelopes in ALL_QUERIES order.
Thm_C2 ==
    /\ search_out # NotCalled => \A i \in QueryIds : results[i] # NotCalled
    /\ search_pc = "done" =>
          /\ search_out.t = "dict"
          /\ \A pl \in Places :
                \E k \in 1..Len(search_out.f.items.l) :
                    XidOf(search_out.f.items.l[k]) = XidOf(ItemAt(pl))
          /\ Len(search_out.f.queries.l) = Len(ALL_QUERIES)
          /\ \A i \in QueryIds :
                search_out.f.queries.l[i] =
                    Dict([name  |-> ALL_QUERIES[i],
                          count |-> results[i].f.count,
                          error |-> results[i].f.error])

\* a result returned although the first dispatches failed, with the records
\* of the one that succeeded
Wit_C2 ==
    /\ SearchDone
    /\ Failed = {1, 2, 3, 4, 5}
    /\ Len(search_out.f.items.l) = 2

\* C4: a per-term search returns a result even when every dispatch failed,
\* and the errors list has exactly one entry per failed dispatch, whatever
\* the failure's text; the summary of a failed query carries its error.
Cex_C4 ==
    search_pc = "done" =>
        /\ search_out.t = "dict"
        /\ Len(search_out.f.errors.l) = Cardinality(Failed)
        /\ Failed # {} => search_out.f.errors.l # <<>>
        /\ \A i \in Failed : search_out.f.queries.l[i].f.error = results[i].f.error

(***************************************************************************)
(* The bulk orchestrator's contract                                        *)
(***************************************************************************)
\* the entry of body that starts at position i holds a character that is
\* neither white space nor a comma
EntryNotBlank(body, i) ==
    \E j \in i..Len(body) :
        /\ ~IsSpace(body[j])
        /\ \A k \in i..j : body[k] # ","

\* the number of comma-separated entries of body that are not blank
TermCount(body) ==
    Cardinality({i \in 1..Len(body) :
                    (i = 1 \/ body[i - 1] = ",") /\ EntryNotBlank(body, i)})

BulkRejected ==
    /\ bulk_pc = "done"
    /\ IsRaise(bulk_out)
    /\ bulk_out.exc = "HTTPException"
    /\ bulk_out.status_code = 400

\* C5: with the terms obtained by splitting the body on commas, trimming and
\* dropping empty entries: no term and more than 100 terms are refused with a
\* client error before any upstream request; 1 to 100 terms are accepted.
Thm_C5 ==
    /\ bulk_pc = "start" => gets = 0
    /\ bulk_pc # "start" =>
          LET n == TermCount(values)
          IN  /\ Len(raw_values) = n
              /\ (n = 0 \/ n > 100) => BulkRejected /\ gets = 0
              /\ (n >= 1 /\ n <= 100) => ~IsRaise(bulk_out) /\ gets = 6 * n

\* a request of exactly 100 terms, answered
Wit_C5 ==
    /\ TermCount(values) = 100
    /\ bulk_pc = "done"
    /\ bulk_out.t = "dict"
    /\ bulk_out.f.totalValues = Num(100)

\* the sum of the totalCount of the first k results
RECURSIVE SumCounts(_, _)
SumCounts(rs, k) == IF k = 0 THEN 0 ELSE SumCounts(rs, k - 1) + rs[k].f.totalCount.n

\* C6: an accepted bulk request returns one Per-Term Search Result per input
\* term, in input order whatever the order the searches ended in; totalValues
\* is the number of terms and totalShipments the sum of the per-term
\* totalCount values.
Thm_C6 ==
    bulk_pc = "done" /\ ~BulkRejected =>
        /\ bulk_out.t = "dict"
        /\ Len(bulk_out.f.results.l) = Len(raw_values)
        /\ \A i \in 1..Len(raw_values) :
              /\ bulk_out.f.results.l[i] = group_results[i]
              /\ bulk_out.f.results.l[i].f.searchValue = Str(raw_values[i])
        /\ bulk_out.f.totalValues = Num(Len(raw_values))
        /\ bulk_out.f.totalShipments =
              Num(SumCounts(bulk_out.f.results.l, Len(raw_values)))

\* the same term twice, the second search ending first, both finding the same
\* shipment among different numbers of records
Wit_C6 ==
    /\ bulk_pc = "done"
    /\ bulk_out.t = "dict"
    /\ raw_values = << <<"a">>, <<"a">> >>
    /\ completed = <<2, 1>>
    /\ bulk_out.f.results.l[1].f.totalCount = Num(1)
    /\ bulk_out.f.results.l[2].f.totalCount = Num(2)
    /\ bulk_out.f.totalShipments = Num(3)

(***************************************************************************)
(* The trigger operations' contract                                        *)
(***************************************************************************)
\* C10: an invocation of a trigger operation issues exactly one POST and
\* never another; when a response is received the outcome has status "ok"
\* exactly when the HTTP status is below 400, httpStatus is the status
\* received and shipmentXid the identifier given; when the request cannot be
\* completed a server error carries the failure's description.
Thm_C10 ==
    /\ trigger_pc = "start" => posts = <<>>
    /\ trigger_pc \in {"posting", "done"} =>
          /\ Len(posts) = 1
          /\ posts[1].url = Name("OTM_WMSERVLET")
          /\ posts[1].content.xid = shipment_xid
    /\ trigger_pc = "done" /\ trigger_resp.kind = "response" =>
          /\ trigger_out.t = "dict"
          /\ trigger_out.f.status \in {Name("ok"), Name("error")}
          /\ trigger_out.f.status = Name("ok") <=> trigger_resp.status_code < 400
          /\ trigger_out.f.httpStatus = Num(trigger_resp.status_code)
          /\ trigger_out.f.shipmentXid = Str(shipment_xid)
    /\ trigger_pc = "done" /\ trigger_resp.kind = "transport" =>
          /\ IsRaise(trigger_out)
          /\ trigger_out.exc = "HTTPException"
          /\ trigger_out.status_code = 500
          /\ trigger_out.detail = Str(trigger_resp.msg)

\* a POST answered with status 400: one POST, outcome "error"
Wit_C10 ==
    /\ trigger_pc = "done"
    /\ trigger_resp.kind = "response"
    /\ trigger_resp.status_code = 400
    /\ Len(posts) = 1
    /\ trigger_out.f.status = Name("error")

====
